---- MODULE Spec2Model ----
(***************************************************************************)
(* Chronicle AI Editor: the generation lifecycle (editorMachine events     *)
(* sent by Editor.tsx), the streaming effect (runGeneration) and the       *)
(* frame-paced text queue (processQueue / triggerProcessing).              *)
(*                                                                         *)
(* A character of generated text is the pair <<producer, index>>, so that  *)
(* loss, duplication and reordering of text are visible in the state.      *)
(*                                                                         *)
(* React runs an effect's cleanup and body after the render that changed   *)
(* its dependencies is committed.  That run is the action runGeneration;   *)
(* until it happens (pendingEffect) the closure flag `active` of the       *)
(* previous run is still true, and callbacks of the producer may arrive.   *)
(* User events wait for it, since React flushes pending effects before it  *)
(* handles the next event.  promptText is read only by the START handlers  *)
(* and is their input.  The editor stays mounted.                          *)
(***************************************************************************)
EXTENDS Integers, Sequences, FiniteSets, TLC

\* ------------------------------------------------------------------ bounds
MaxSessions == 2
MaxFragments == 2
MaxFragLen == 3
MaxBacklog == 260

\* --------------------------------------------------------------- constants
Undefined == "undefined"
DefaultErrorMessage == "Failed to generate text"
PromptTexts == {"", "go"}
ErrorMessages == {Undefined, "rate limited"}
FragmentLengths == {1, MaxFragLen}

VARIABLES
    status,             \* state.value of the editorMachine actor
    instruction,        \* state.context.instruction
    errorMessage,       \* message stored by the machine on ERROR
    isExpanded,         \* React state isExpanded
    effectDeps,         \* deps of the last run of the runGeneration effect
    pendingEffect,      \* a render committed changed deps; effect not yet flushed
    currentRun,         \* producer started by the live effect closure, 0 if none
    producers,          \* one record per streamContinuation call
    textQueue,          \* textQueueRef.current
    isProcessingQueue,  \* isProcessingQueue.current
    rafScheduled,       \* number of requestAnimationFrame callbacks pending
    doc,                \* text content of the ProseMirror document
    cursor,             \* selection position, as an offset into doc
    inserted,           \* history: the text passed to insertText, in order
    insertsThisFrame,   \* history: insertText calls since the last frame callback began
    delivered,          \* history: number of fragments the producers have yielded
    enqueued,           \* history: every character appended to textQueue
    disturbed,          \* history: a CANCEL or a new chat was issued
    startWhileGenerating        \* history: the last handler was a START issued while generating

machineVars == <<status, instruction, errorMessage>>
effectVars == <<effectDeps, pendingEffect, currentRun, producers>>
queueVars == <<textQueue, isProcessingQueue, rafScheduled, doc, cursor, inserted, insertsThisFrame>>
historyVars == <<enqueued, disturbed>>
vars == <<machineVars, isExpanded, effectVars, queueVars, historyVars, delivered, startWhileGenerating>>

\* ----------------------------------------------------------------- helpers
Min(a, b) == IF a < b THEN a ELSE b

\* String.prototype.slice(0, n) and slice(n) for n >= 0
SliceTo(s, n) == SubSeq(s, 1, Min(n, Len(s)))
SliceFrom(s, n) == SubSeq(s, Min(n, Len(s)) + 1, Len(s))

\* the fragment of n characters a producer yields after k characters of it were
\* accepted (a discarded fragment is never seen again, so it uses up no names)
Fragment(sid, k, n) == [i \in 1..n |-> <<sid, k + i>>]

\* ------------------------------------------------- editorMachine (from spec)
Machine == [status |-> status, instruction |-> instruction, errorMessage |-> errorMessage]

machineSend(m, ev) ==
    CASE ev.type = "CONTINUE_WRITING" /\ m.status # "generating" ->
            [status |-> "generating", instruction |-> ev.instruction, errorMessage |-> Undefined]
      [] ev.type = "GENERATION_COMPLETE" /\ m.status = "generating" ->
            [m EXCEPT !.status = "success"]
      [] ev.type = "ERROR" /\ m.status = "generating" ->
            [m EXCEPT !.status = "error", !.errorMessage = ev.message]
      [] ev.type = "CANCEL" /\ m.status = "generating" ->
            [m EXCEPT !.status = "cancelled"]
      [] OTHER -> m

\* ------------------------------------------------------------- text queue
Queue == [textQueue |-> textQueue, isProcessingQueue |-> isProcessingQueue,
          rafScheduled |-> rafScheduled, doc |-> doc, cursor |-> cursor,
          inserted |-> inserted, insertsThisFrame |-> insertsThisFrame]

\* mutant: the thresholds compared with >=
chunkSize_inclusive(queueLength) ==
    IF queueLength >= 200 THEN 50
    ELSE IF queueLength >= 100 THEN 25
    ELSE IF queueLength >= 50 THEN 10
    ELSE IF queueLength >= 10 THEN 4
    ELSE 2

chunkSize(queueLength) ==
    IF queueLength > 200 THEN 50
    ELSE IF queueLength > 100 THEN 25
    ELSE IF queueLength > 50 THEN 10
    ELSE IF queueLength > 10 THEN 4
    ELSE 2

\* tr.insertText(chunk) at the cursor, dispatched
insertText(q, chunk) ==
    [q EXCEPT !.doc = SubSeq(q.doc, 1, q.cursor) \o chunk \o SubSeq(q.doc, q.cursor + 1, Len(q.doc)),
              !.cursor = q.cursor + Len(chunk),
              !.inserted = q.inserted \o chunk,
              !.insertsThisFrame = q.insertsThisFrame + 1]

\* mutant: the loop never clears isProcessingQueue
processQueue_neverIdle(q) ==
    IF Len(q.textQueue) > 0
    THEN LET n == chunkSize(Len(q.textQueue))
             chunk == SliceTo(q.textQueue, n)
             q1 == [q EXCEPT !.textQueue = SliceFrom(q.textQueue, n)]
             q2 == insertText(q1, chunk)
         IN  [q2 EXCEPT !.rafScheduled = q2.rafScheduled + 1]
    ELSE q

\* mutant: the step that empties the queue deactivates the loop itself
processQueue_stopWhenEmpty(q) ==
    IF Len(q.textQueue) > 0
    THEN LET n == chunkSize(Len(q.textQueue))
             chunk == SliceTo(q.textQueue, n)
             q1 == [q EXCEPT !.textQueue = SliceFrom(q.textQueue, n)]
             q2 == insertText(q1, chunk)
         IN  IF q2.textQueue = <<>>
             THEN [q2 EXCEPT !.isProcessingQueue = FALSE]
             ELSE [q2 EXCEPT !.rafScheduled = q2.rafScheduled + 1]
    ELSE [q EXCEPT !.isProcessingQueue = FALSE]

\* mutant: the step slices and inserts before it tests the queue's length
processQueue_insertFirst(q) ==
    LET n == chunkSize(Len(q.textQueue))
        chunk == SliceTo(q.textQueue, n)
        q1 == [q EXCEPT !.textQueue = SliceFrom(q.textQueue, n)]
        q2 == insertText(q1, chunk)
    IN  IF Len(q.textQueue) > 0
        THEN [q2 EXCEPT !.rafScheduled = q2.rafScheduled + 1]
        ELSE [q2 EXCEPT !.isProcessingQueue = FALSE]

processQueue(q) ==
    IF Len(q.textQueue) > 0
    THEN LET n == chunkSize(Len(q.textQueue))
             chunk == SliceTo(q.textQueue, n)
             q1 == [q EXCEPT !.textQueue = SliceFrom(q.textQueue, n)]
             q2 == insertText(q1, chunk)
         IN  [q2 EXCEPT !.rafScheduled = q2.rafScheduled + 1]
    ELSE [q EXCEPT !.isProcessingQueue = FALSE]

\* mutant: no isProcessingQueue guard
triggerProcessing_unguarded(q) ==
    processQueue([q EXCEPT !.isProcessingQueue = TRUE])

\* mutant: isProcessingQueue is tested but not set before the first step
triggerProcessing_noFlag(q) ==
    IF ~q.isProcessingQueue THEN processQueue(q) ELSE q

triggerProcessing(q) ==
    IF ~q.isProcessingQueue
    THEN processQueue([q EXCEPT !.isProcessingQueue = TRUE])
    ELSE q

clearEditor(q) ==
    [q EXCEPT !.doc = <<>>, !.cursor = 0, !.textQueue = <<>>]

\* mutant: the chunk is put in front of the queue
onChunk_prepend(active, q, chunk) ==
    IF ~active THEN q
    ELSE triggerProcessing([q EXCEPT !.textQueue = chunk \o q.textQueue])

\* mutant: the chunk is appended but triggerTyping is not called
onChunk_noTrigger(active, q, chunk) ==
    IF ~active THEN q
    ELSE [q EXCEPT !.textQueue = q.textQueue \o chunk]

\* the callback handed to streamContinuation
onChunk(active, q, chunk) ==
    IF ~active THEN q
    ELSE triggerProcessing([q EXCEPT !.textQueue = q.textQueue \o chunk])

setQueue(q) ==
    /\ textQueue' = q.textQueue
    /\ isProcessingQueue' = q.isProcessingQueue
    /\ rafScheduled' = q.rafScheduled
    /\ doc' = q.doc
    /\ cursor' = q.cursor
    /\ inserted' = q.inserted
    /\ insertsThisFrame' = q.insertsThisFrame

setMachine(m) ==
    /\ status' = m.status
    /\ instruction' = m.instruction
    /\ errorMessage' = m.errorMessage

\* ------------------------------------------------------ runGeneration effect
\* mutant: the effect has no dependency array
depsChanged_always(prev, now) == TRUE

\* useEffect(..., [state.value, send, state.context.instruction])
depsChanged(prev, now) == prev # now

\* a render that follows send(): the effect is re-run when its deps changed
render(m) ==
    pendingEffect' = (pendingEffect \/ depsChanged(effectDeps, <<m.status, m.instruction>>))

\* mutant: err.message without the default
errorText_raw(message) == message

\* err.message || 'Failed to generate text'
errorText(message) == IF message = Undefined THEN DefaultErrorMessage ELSE message

\* ------------------------------------------------------------------- Init
Init ==
    /\ status = "idle"
    /\ instruction = Undefined
    /\ errorMessage = Undefined
    /\ isExpanded = FALSE
    /\ effectDeps = <<"idle", Undefined>>
    /\ pendingEffect = FALSE
    /\ currentRun = 0
    /\ producers = <<>>
    /\ textQueue = <<>>
    /\ isProcessingQueue = FALSE
    /\ rafScheduled = 0
    /\ doc = <<>>
    /\ cursor = 0
    /\ inserted = <<>>
    /\ insertsThisFrame = 0
    /\ delivered = 0
    /\ enqueued = <<>>
    /\ disturbed = FALSE
    /\ startWhileGenerating = FALSE

\* ---------------------------------------------------------------- actions
handleStartGeneration(promptText) ==
    LET q == IF ~isExpanded THEN clearEditor(Queue) ELSE Queue
        m == machineSend(Machine, [type |-> "CONTINUE_WRITING",
                                   instruction |-> IF promptText = "" THEN Undefined ELSE promptText])
    IN  /\ ~pendingEffect
        /\ status # "generating" => Len(producers) < MaxSessions
        /\ setQueue(q)
        /\ setMachine(m)
        /\ render(m)
        /\ isExpanded' = TRUE
        /\ startWhileGenerating' = (status = "generating")
        /\ UNCHANGED <<effectDeps, currentRun, producers, historyVars, delivered>>

\* action button while not generating
clickContinueWriting(promptText) ==
    /\ status # "generating"
    /\ handleStartGeneration(promptText)

\* Enter in the prompt input
pressEnter(promptText) ==
    /\ promptText # ""
    /\ handleStartGeneration(promptText)

\* action button while generating
clickCancel ==
    LET m == machineSend(Machine, [type |-> "CANCEL"])
    IN  /\ ~pendingEffect
        /\ status = "generating"
        /\ setMachine(m)
        /\ render(m)
        /\ disturbed' = TRUE
        /\ startWhileGenerating' = FALSE
        /\ UNCHANGED <<isExpanded, effectDeps, currentRun, producers, queueVars, enqueued, delivered>>

\* mutant: new chat clears the document but not textQueueRef
handleNewChat_keepQueue ==
    LET m == IF status = "generating" THEN machineSend(Machine, [type |-> "CANCEL"]) ELSE Machine
    IN  /\ ~pendingEffect
        /\ setMachine(m)
        /\ render(m)
        /\ setQueue([Queue EXCEPT !.doc = <<>>, !.cursor = 0])
        /\ isExpanded' = FALSE
        /\ disturbed' = TRUE
        /\ startWhileGenerating' = FALSE
        /\ UNCHANGED <<effectDeps, currentRun, producers, enqueued, delivered>>

handleNewChat ==
    LET m == IF status = "generating" THEN machineSend(Machine, [type |-> "CANCEL"]) ELSE Machine
        q == clearEditor(Queue)
    IN  /\ ~pendingEffect
        /\ setMachine(m)
        /\ render(m)
        /\ setQueue([q EXCEPT !.textQueue = <<>>])
        /\ isExpanded' = FALSE
        /\ disturbed' = TRUE
        /\ startWhileGenerating' = FALSE
        /\ UNCHANGED <<effectDeps, currentRun, producers, enqueued, delivered>>

\* mutant: the effect returns no cleanup, so `active` is never cleared
runGeneration_noCleanup ==
    /\ pendingEffect
    /\ pendingEffect' = FALSE
    /\ startWhileGenerating' = FALSE
    /\ effectDeps' = <<status, instruction>>
    /\ IF status = "generating"
       THEN /\ producers' = Append(producers, [active |-> TRUE, pc |-> "running", chars |-> 0])
            /\ currentRun' = Len(producers) + 1
            /\ cursor' = Len(doc)
       ELSE /\ producers' = producers
            /\ currentRun' = 0
            /\ cursor' = cursor
    /\ isExpanded' = (isExpanded \/ status = "generating")
    /\ UNCHANGED <<machineVars, textQueue, isProcessingQueue, rafScheduled,
                   doc, inserted, insertsThisFrame, historyVars, delivered>>

\* mutant: the producer is started without moving the selection
runGeneration_noSelection ==
    LET cleaned == IF currentRun = 0 THEN producers
                   ELSE [producers EXCEPT ![currentRun].active = FALSE]
    IN  /\ pendingEffect
        /\ pendingEffect' = FALSE
        /\ startWhileGenerating' = FALSE
        /\ effectDeps' = <<status, instruction>>
        /\ IF status = "generating"
           THEN /\ producers' = Append(cleaned, [active |-> TRUE, pc |-> "running", chars |-> 0])
                /\ currentRun' = Len(producers) + 1
           ELSE /\ producers' = cleaned
                /\ currentRun' = 0
        /\ isExpanded' = (isExpanded \/ status = "generating")
        /\ UNCHANGED <<machineVars, queueVars, historyVars, delivered>>

\* the effect's cleanup, then runGeneration
runGeneration ==
    LET cleaned == IF currentRun = 0 THEN producers
                   ELSE [producers EXCEPT ![currentRun].active = FALSE]
    IN  /\ pendingEffect
        /\ pendingEffect' = FALSE
        /\ startWhileGenerating' = FALSE
        /\ effectDeps' = <<status, instruction>>
        /\ IF status = "generating"
           THEN /\ producers' = Append(cleaned, [active |-> TRUE, pc |-> "running", chars |-> 0])
                /\ currentRun' = Len(producers) + 1
                /\ cursor' = Len(doc)
           ELSE /\ producers' = cleaned
                /\ currentRun' = 0
                /\ cursor' = cursor
        /\ isExpanded' = (isExpanded \/ status = "generating")
        /\ UNCHANGED <<machineVars, textQueue, isProcessingQueue, rafScheduled,
                       doc, inserted, insertsThisFrame, historyVars, delivered>>

\* the producer p yields a fragment of n characters
streamChunk(p, n) ==
    LET chunk == Fragment(p, producers[p].chars, n)
        q == onChunk(producers[p].active, Queue, chunk)
    IN  /\ producers[p].pc = "running"
        /\ delivered < MaxFragments
        /\ delivered' = delivered + 1
        /\ startWhileGenerating' = FALSE
        /\ setQueue(q)
        /\ producers' = [producers EXCEPT ![p].chars = IF producers[p].active THEN @ + n ELSE @]
        /\ enqueued' = IF producers[p].active THEN enqueued \o chunk ELSE enqueued
        /\ UNCHANGED <<machineVars, isExpanded, effectDeps, pendingEffect, currentRun, disturbed>>

\* mutant: GENERATION_COMPLETE is never sent
streamResolved_silent(p) ==
    /\ producers[p].pc = "running"
    /\ producers' = [producers EXCEPT ![p].pc = "settled"]
    /\ startWhileGenerating' = FALSE
    /\ UNCHANGED <<machineVars, pendingEffect, isExpanded, effectDeps, currentRun,
                   queueVars, historyVars, delivered>>

\* mutant: GENERATION_COMPLETE is sent without testing `active`
streamResolved_unguarded(p) ==
    LET m == machineSend(Machine, [type |-> "GENERATION_COMPLETE"])
    IN  /\ producers[p].pc = "running"
        /\ producers' = [producers EXCEPT ![p].pc = "settled"]
        /\ startWhileGenerating' = FALSE
        /\ setMachine(m)
        /\ render(m)
        /\ UNCHANGED <<isExpanded, effectDeps, currentRun, queueVars, historyVars, delivered>>

\* the producer's promise resolves
streamResolved(p) ==
    LET m == IF producers[p].active
             THEN machineSend(Machine, [type |-> "GENERATION_COMPLETE"])
             ELSE Machine
    IN  /\ producers[p].pc = "running"
        /\ producers' = [producers EXCEPT ![p].pc = "settled"]
        /\ startWhileGenerating' = FALSE
        /\ setMachine(m)
        /\ render(m)
        /\ UNCHANGED <<isExpanded, effectDeps, currentRun, queueVars, historyVars, delivered>>

\* mutant: the catch branch clears the editor
streamRejected_rollback(p, message) ==
    LET m == IF producers[p].active
             THEN machineSend(Machine, [type |-> "ERROR", message |-> errorText(message)])
             ELSE Machine
    IN  /\ producers[p].pc = "running"
        /\ producers' = [producers EXCEPT ![p].pc = "settled"]
        /\ startWhileGenerating' = FALSE
        /\ setMachine(m)
        /\ render(m)
        /\ setQueue(IF producers[p].active THEN clearEditor(Queue) ELSE Queue)
        /\ UNCHANGED <<isExpanded, effectDeps, currentRun, historyVars, delivered>>

\* the producer's promise rejects with err.message = message
streamRejected(p, message) ==
    LET m == IF producers[p].active
             THEN machineSend(Machine, [type |-> "ERROR", message |-> errorText(message)])
             ELSE Machine
    IN  /\ producers[p].pc = "running"
        /\ producers' = [producers EXCEPT ![p].pc = "settled"]
        /\ startWhileGenerating' = FALSE
        /\ setMachine(m)
        /\ render(m)
        /\ UNCHANGED <<isExpanded, effectDeps, currentRun, queueVars, historyVars, delivered>>

\* a scheduled requestAnimationFrame callback runs processQueue
animationFrame ==
    /\ rafScheduled > 0
    /\ startWhileGenerating' = FALSE
    /\ setQueue(processQueue([Queue EXCEPT !.rafScheduled = rafScheduled - 1,
                                          !.insertsThisFrame = 0]))
    /\ UNCHANGED <<machineVars, isExpanded, effectVars, historyVars, delivered>>

Next ==
    \/ \E promptText \in PromptTexts : clickContinueWriting(promptText)
    \/ \E promptText \in PromptTexts : pressEnter(promptText)
    \/ clickCancel
    \/ handleNewChat
    \/ runGeneration
    \/ \E p \in DOMAIN producers, n \in FragmentLengths : streamChunk(p, n)
    \/ \E p \in DOMAIN producers : streamResolved(p)
    \/ \E p \in DOMAIN producers, message \in ErrorMessages : streamRejected(p, message)
    \/ animationFrame

Spec == Init /\ [][Next]_vars

\* runs in which the user issues no CANCEL and no new chat
UndisturbedNext ==
    \/ \E promptText \in PromptTexts : clickContinueWriting(promptText)
    \/ \E promptText \in PromptTexts : pressEnter(promptText)
    \/ runGeneration
    \/ \E p \in DOMAIN producers, n \in FragmentLengths : streamChunk(p, n)
    \/ \E p \in DOMAIN producers : streamResolved(p)
    \/ \E p \in DOMAIN producers, message \in ErrorMessages : streamRejected(p, message)
    \/ animationFrame

\* requestAnimationFrame callbacks are eventually run by the browser
FairSpec == Init /\ [][UndisturbedNext]_vars /\ WF_vars(animationFrame)

\* ------------------------------------------- the user moves the text cursor
\* a click or an arrow key in the editor: ProseMirror dispatches a selection
\* transaction through dispatchTransaction
userSelects(pos) ==
    /\ ~pendingEffect
    /\ pos \in 0..Len(doc)
    /\ pos # cursor
    /\ cursor' = pos
    /\ startWhileGenerating' = FALSE
    /\ UNCHANGED <<machineVars, isExpanded, effectVars, textQueue, isProcessingQueue,
                   rafScheduled, doc, inserted, insertsThisFrame, historyVars, delivered>>

\* the user puts the cursor at the start of the document
CursorPositions == {0}

CursorNext ==
    \/ UndisturbedNext
    \/ \E pos \in CursorPositions : userSelects(pos)

SpecCursor == Init /\ [][CursorNext]_vars

\* ---------------------------------------------- the drain loop on a backlog
\* a generation is running; the producer yields one fragment of any length
DrainInit ==
    /\ status = "generating"
    /\ instruction = Undefined
    /\ errorMessage = Undefined
    /\ isExpanded = TRUE
    /\ effectDeps = <<"generating", Undefined>>
    /\ pendingEffect = FALSE
    /\ currentRun = 1
    /\ producers = <<[active |-> TRUE, pc |-> "running", chars |-> 0]>>
    /\ textQueue = <<>>
    /\ isProcessingQueue = FALSE
    /\ rafScheduled = 0
    /\ doc = <<>>
    /\ cursor = 0
    /\ inserted = <<>>
    /\ insertsThisFrame = 0
    /\ delivered = 0
    /\ enqueued = <<>>
    /\ disturbed = FALSE
    /\ startWhileGenerating = FALSE

\* the first fragment of the stream, of n characters
streamBacklog(n) ==
    /\ delivered = 0
    /\ streamChunk(1, n)

DrainNext ==
    \/ \E n \in 1..MaxBacklog : streamBacklog(n)
    \/ animationFrame

SpecDrain == DrainInit /\ [][DrainNext]_vars

FairDrain == SpecDrain /\ WF_vars(animationFrame)

\* ------------------------------------------------------------------ claims
\* the characters a step appends to textQueue
Added == SubSeq(enqueued', Len(enqueued) + 1, Len(enqueued'))

\* the chunk size the staircase table gives for a buffer of L >= 1 characters
Staircase(L) ==
    CASE L > 200 -> 50
      [] L > 100 /\ L <= 200 -> 25
      [] L > 50 /\ L <= 100 -> 10
      [] L > 10 /\ L <= 50 -> 4
      [] L >= 1 /\ L <= 10 -> 2

Drained == textQueue = <<>> /\ ~isProcessingQueue /\ rafScheduled = 0

\* C1: with no CANCEL and no new chat so far, the text inserted so far followed by
\* the pending buffer is the concatenation of all enqueued fragments, in order.
C1_InsertedThenPendingIsEnqueued ==
    ~disturbed => inserted \o textQueue = enqueued

C1_Witness ==
    /\ ~disturbed
    /\ delivered = 2
    /\ Len(inserted) >= 2
    /\ Len(textQueue) >= 2

\* C2: a CANCEL issued while generating empties the pending buffer in the same step
\* and makes the status cancelled.
C2_CancelResetsQueue ==
    [][(status = "generating" /\ (clickCancel \/ handleNewChat))
          => (status' = "cancelled" /\ textQueue' = <<>>)]_vars

\* C3: a fragment delivered while the status is cancelled is discarded: the buffer
\* is left as it was, of length 0, and nothing is inserted.
C3_FragmentAfterCancelDiscarded ==
    [][(status = "cancelled" /\ delivered' # delivered)
          => (textQueue' = textQueue /\ Len(textQueue') = 0 /\ inserted' = inserted)]_vars

\* C4: a START issued while generating changes nothing: the status stays generating,
\* no producer is started or deactivated and no run of the effect is scheduled.
C4_StartWhileGeneratingIsNoOp ==
    [][startWhileGenerating'
          => /\ status = "generating" /\ status' = "generating"
             /\ instruction' = instruction
             /\ producers' = producers
             /\ currentRun' = currentRun
             /\ ~pendingEffect'
             /\ textQueue' = textQueue /\ inserted' = inserted]_vars

C4_Witness ==
    /\ startWhileGenerating
    /\ status = "generating"
    /\ currentRun # 0
    /\ producers[currentRun].active
    /\ Len(producers) = 1

\* C5: a step that inserts text removes from the buffer what it inserts and no more
\* than is buffered; and under fair frames the queue ends empty, inactive and with
\* no frame callback scheduled.
C5_DrainBoundedAndTerminates ==
    /\ [][inserted' # inserted
            => LET n == Len(inserted') - Len(inserted)
                   L == Len(textQueue) + Len(Added)
               IN  n >= 1 /\ n <= L /\ Len(textQueue') = L - n]_vars
    /\ <>[]Drained

C5_Witness ==
    /\ Drained
    /\ Len(inserted) = 250
    /\ inserted = enqueued

\* C6: a drain step on a buffer of L >= 1 characters removes the first
\* min(Staircase(L), L) characters and inserts them; the chunk size never
\* decreases as L grows.
C6_ChunkIsStaircase ==
    [][/\ inserted' # inserted
          => LET L == Len(textQueue) + Len(Added)
                 buffered == textQueue \o Added
                 n == IF Staircase(L) < L THEN Staircase(L) ELSE L
             IN  /\ inserted' = inserted \o SubSeq(buffered, 1, n)
                 /\ textQueue' = SubSeq(buffered, n + 1, L)
       /\ \A L \in 1..(MaxBacklog - 1) : chunkSize(L) <= chunkSize(L + 1)]_vars

C6_Witness ==
    /\ Len(enqueued) = 250
    /\ Len(inserted) = 75
    /\ Len(textQueue) = 175

\* C7: with no CANCEL and no new chat, every fragment the producer yields is
\* enqueued, the end of its sequence makes the status success, and the text still
\* buffered then is eventually all inserted.
C7_CompleteThenDrained ==
    /\ [][/\ (delivered' # delivered /\ ~disturbed) => enqueued' # enqueued
          /\ \A p \in DOMAIN producers :
                (streamResolved(p) /\ p = currentRun /\ status = "generating")
                   => status' = "success"]_vars
    /\ (status = "success" /\ ~disturbed)
          ~> (disturbed \/ (textQueue = <<>> /\ inserted = enqueued))

C7_Witness ==
    /\ status = "success"
    /\ ~disturbed
    /\ Len(producers) = 1
    /\ delivered = 2
    /\ textQueue = <<>>
    /\ inserted = enqueued
    /\ doc = inserted

\* C8: a rejection of the running producer makes the status error with the
\* producer's message, or the default message when it carries none; a START
\* issued in status error is accepted.
C8_RejectionStoresMessage ==
    [][/\ \A p \in DOMAIN producers, message \in ErrorMessages :
             (streamRejected(p, message) /\ p = currentRun /\ status = "generating")
                => /\ status' = "error"
                   /\ errorMessage' = IF message = Undefined
                                      THEN "Failed to generate text" ELSE message
       /\ \A promptText \in PromptTexts :
             (status = "error" /\ handleStartGeneration(promptText))
                => status' = "generating"]_vars

C8_Witness ==
    /\ status = "error"
    /\ errorMessage = "Failed to generate text"
    /\ Len(producers) = 2

\* C9: the step that makes the status error leaves the document and the text
\* inserted so far unchanged.
C9_FailureKeepsDocument ==
    [][(status # "error" /\ status' = "error") => (doc' = doc /\ inserted' = inserted)]_vars

C9_Witness ==
    /\ status = "error"
    /\ Len(doc) = MaxFragLen + 1
    /\ doc = inserted

\* C10: at most one frame callback is scheduled, and an enqueue that arrives while
\* isProcessingQueue is true only appends to the buffer.
C10_SingleDrainLoop ==
    [][/\ rafScheduled' <= 1
       /\ (enqueued' # enqueued /\ isProcessingQueue)
             => /\ textQueue' = textQueue \o Added
                /\ inserted' = inserted
                /\ rafScheduled' = rafScheduled
                /\ isProcessingQueue']_vars

C10_Witness ==
    /\ isProcessingQueue
    /\ rafScheduled = 1
    /\ delivered = 2
    /\ Len(textQueue) >= 2

\* the status changes of the transition table
Edges ==
    {<<"idle", "generating">>, <<"generating", "success">>, <<"generating", "error">>,
     <<"generating", "cancelled">>, <<"success", "generating">>,
     <<"error", "generating">>, <<"cancelled", "generating">>}

\* the characters that were enqueued and are neither inserted nor buffered
Dropped ==
    {enqueued[i] : i \in DOMAIN enqueued} \
        ({inserted[i] : i \in DOMAIN inserted} \cup {textQueue[i] : i \in DOMAIN textQueue})

SortedByProducer(s) == \A i, j \in DOMAIN s : i < j => s[i][1] <= s[j][1]

\* C11: the status changes only along the edges of the transition table, and the
\* completion or rejection of a producer that is deactivated, or that arrives in a
\* status other than generating, changes nothing of the machine.
C11_StatusFollowsEdges ==
    [][/\ status' # status => <<status, status'>> \in Edges
       /\ \A p \in DOMAIN producers :
             (/\ streamResolved(p) \/ \E message \in ErrorMessages : streamRejected(p, message)
              /\ status # "generating" \/ ~producers[p].active)
                => UNCHANGED machineVars]_vars

C11_Witness ==
    /\ status = "cancelled"
    /\ Len(producers) = 1
    /\ producers[1].pc = "settled"

\* C12: a new chat, or the clearEditor of a START, leaves the buffer empty and what
\* was buffered dropped; a dropped character is never buffered or inserted again.
C12_ResetDropsBufferedText ==
    [][/\ (handleNewChat \/ (~isExpanded /\ \E promptText \in PromptTexts :
                                               handleStartGeneration(promptText)))
             => /\ textQueue' = <<>>
                /\ {textQueue[i] : i \in DOMAIN textQueue} \subseteq Dropped'
       /\ Dropped \subseteq Dropped']_vars

C12_Witness ==
    /\ Dropped # {}
    /\ inserted # <<>>
    /\ textQueue = <<>>
    /\ ~isProcessingQueue
    /\ rafScheduled = 0

\* C13 as stated: the step that removes the last buffered characters sets
\* isProcessingQueue to false and schedules no further frame.
C13_LastStepDeactivates ==
    [][(inserted' # inserted /\ textQueue' = <<>>)
          => (~isProcessingQueue' /\ rafScheduled' = 0)]_vars

\* C13 amended: every step that inserts text leaves the loop active with one frame
\* scheduled, also when it empties the buffer; a frame that finds the buffer empty
\* inserts nothing, sets isProcessingQueue to false and schedules nothing.
C13_NextFrameDeactivates ==
    [][/\ inserted' # inserted => (isProcessingQueue' /\ rafScheduled' = 1)
       /\ (animationFrame /\ textQueue = <<>>)
             => (inserted' = inserted /\ ~isProcessingQueue' /\ rafScheduled' = 0)]_vars

C13_Witness ==
    /\ textQueue = <<>>
    /\ isProcessingQueue
    /\ rafScheduled = 1
    /\ Len(inserted) = MaxFragLen

\* C14: a START accepted in status success, error or cancelled leaves the pending
\* buffer empty.
C14_StartClearsBuffer ==
    [][(status \in {"success", "error", "cancelled"} /\ status' = "generating")
          => textQueue' = <<>>]_vars

\* C15: at most one producer has its callback active, it is the one of the live
\* effect, and the enqueued and the inserted text are grouped by producer in the
\* order the producers were started.
C15_SingleLiveProducer ==
    /\ \A p \in DOMAIN producers : producers[p].active => p = currentRun
    /\ SortedByProducer(enqueued)
    /\ SortedByProducer(inserted)

C15_Witness ==
    /\ Len(producers) = 2
    /\ producers[1].pc = "running"
    /\ ~producers[1].active
    /\ producers[2].active
    /\ delivered = 2
    /\ Len(enqueued) = 1
    /\ enqueued[1][1] = 2

\* C18: a non-empty buffer implies that the loop is active, and an active loop has a
\* frame callback scheduled.
C18_NoStrandedText ==
    /\ textQueue # <<>> => isProcessingQueue
    /\ isProcessingQueue => rafScheduled >= 1

C18_Witness ==
    /\ ~disturbed
    /\ Len(inserted) = 1
    /\ Len(textQueue) = MaxFragLen
    /\ isProcessingQueue
    /\ rafScheduled = 1

\* the step issues an insertion request to the document
IssuesInsert ==
    IF animationFrame THEN insertsThisFrame' > 0 ELSE insertsThisFrame' > insertsThisFrame

\* C16: at most one insertion request is issued from the beginning of one frame
\* callback to the beginning of the next.
C16_OneInsertPerFrame == insertsThisFrame <= 1

C16_Witness ==
    /\ insertsThisFrame = 1
    /\ rafScheduled = 1
    /\ inserted = <<<<1, 1>>, <<1, 2>>>>
    /\ textQueue = <<<<1, 3>>, <<1, 4>>>>

\* C19: every insertion request carries between 1 and 50 characters, and a frame
\* callback that finds the buffer empty issues none.
C19_InsertCarries1To50 ==
    [][/\ IssuesInsert => Len(inserted') - Len(inserted) \in 1..50
       /\ (animationFrame /\ textQueue = <<>>) => ~IssuesInsert]_vars

C19_Witness ==
    /\ Len(inserted) = 50
    /\ Len(textQueue) = MaxBacklog - 50
    /\ insertsThisFrame = 1

\* C17: the step that starts a producer leaves the cursor at the end of the
\* document, and a producer that has not been started has enqueued nothing.
C17_CursorAtEndBeforeProducer ==
    [][/\ Len(producers') > Len(producers) => cursor' = Len(doc')
       /\ \A i \in DOMAIN enqueued' : enqueued'[i][1] \in DOMAIN producers]_vars

C17_Witness ==
    /\ Len(producers) = 2
    /\ doc = <<<<1, 3>>, <<1, 1>>, <<1, 2>>, <<2, 1>>>>
    /\ cursor = Len(doc)

====
